---- MODULE Spec2Model ----
(***************************************************************************)
(* Model of the audio streaming session of                                 *)
(* frontend/src/components/RealtimeCall.tsx: the refs and state of the     *)
(* component, cleanup(), joinCall(), leaveCall(), the WebSocket handlers   *)
(* joinCall installs, the retry timer and the microphone request.          *)
(*                                                                         *)
(* Every joinCall() invocation that passes its guard creates one WebSocket *)
(* and one AudioContext and starts one getUserMedia request; the model     *)
(* numbers these invocations 1, 2, ... and names each object by the number *)
(* of the invocation that created it.  A ref holds such a number, or 0 for *)
(* null.                                                                   *)
(***************************************************************************)
EXTENDS Integers, FiniteSets, Sequences

\* Number of joinCall() invocations (past the guard) a behaviour may contain.
MaxAttempts == 3

\* Number of joinCall() invocations in the behaviours that also deliver
\* capture blocks and inbound frames.
MaxMediaAttempts == 2

\* Largest byte length of an inbound frame.
MaxFrameBytes == 5

Attempts == 1..MaxAttempts
FrameBytes == 0..MaxFrameBytes
Null == 0
Refs == 0..MaxAttempts

VARIABLES
    isConnected,          \* useState(false), line 9
    status,               \* useState("Not connected"), line 10
    wsRef,                \* line 11
    audioCtxRef,          \* line 12
    inputNodeRef,         \* line 13
    mediaStreamRef,       \* line 14
    reconnectTimeoutRef,  \* line 15
    nextId,               \* number of the next joinCall() invocation
    ws,                   \* readyState of the WebSocket of each invocation
    audioCtx,             \* state of the AudioContext of each invocation
    pc,                   \* position of each joinCall() invocation
    stream,               \* MediaStream obtained by each invocation
    node,                 \* ScriptProcessorNode created by each invocation
    timer,                \* timeout set by the onerror handler of each invocation
    closure,              \* the isConnected each joinCall() invocation closes over
    decoding,             \* <<b>> while a frame of b bytes is being read, else <<>>
    media                 \* what the last capture or frame callback did

vars == <<isConnected, status, wsRef, audioCtxRef, inputNodeRef, mediaStreamRef,
          reconnectTimeoutRef, nextId, ws, audioCtx, pc, stream, node, timer,
          closure, decoding, media>>

mediaVars == <<decoding, media>>

\* Outcomes of onaudioprocess and of onmessage with its promise chain.  The
\* three errors are thrown inside then() and handed to catch(console.error).
Caught == {"rangeError", "typeError", "notSupportedError"}
Outcomes == {"none", "sent", "dropped", "threw", "ignored", "played"} \cup Caught
refs == <<wsRef, audioCtxRef, inputNodeRef, mediaStreamRef>>
objects == <<ws, audioCtx, stream, node>>

Statuses == {"notConnected", "requestingMic", "wsReady", "retrying",
             "autoRetrying", "connected", "micError"}

TypeOK ==
    /\ isConnected \in BOOLEAN
    /\ status \in Statuses
    /\ wsRef \in Refs /\ audioCtxRef \in Refs /\ inputNodeRef \in Refs
    /\ mediaStreamRef \in Refs /\ reconnectTimeoutRef \in Refs
    /\ nextId \in 1..(MaxAttempts + 1)
    /\ ws \in [Attempts -> {"NONE", "CONNECTING", "OPEN", "CLOSING", "CLOSED"}]
    /\ audioCtx \in [Attempts -> {"none", "running", "closed"}]
    /\ pc \in [Attempts -> {"none", "awaitMic", "done", "caught"}]
    /\ stream \in [Attempts -> {"none", "live", "stopped"}]
    /\ node \in [Attempts -> {"none", "connected", "disconnected"}]
    /\ timer \in [Attempts -> {"none", "pending", "fired", "cleared"}]
    /\ closure \in [Attempts -> BOOLEAN]
    /\ decoding \in {<<>>} \cup {<<b>> : b \in FrameBytes}
    /\ media \in Outcomes \X (0..MaxFrameBytes)

Init ==
    /\ isConnected = FALSE
    /\ status = "notConnected"
    /\ wsRef = Null /\ audioCtxRef = Null /\ inputNodeRef = Null
    /\ mediaStreamRef = Null /\ reconnectTimeoutRef = Null
    /\ nextId = 1
    /\ ws = [k \in Attempts |-> "NONE"]
    /\ audioCtx = [k \in Attempts |-> "none"]
    /\ pc = [k \in Attempts |-> "none"]
    /\ stream = [k \in Attempts |-> "none"]
    /\ node = [k \in Attempts |-> "none"]
    /\ timer = [k \in Attempts |-> "none"]
    /\ closure = [k \in Attempts |-> FALSE]
    /\ decoding = <<>>
    /\ media = <<"none", 0>>

----------------------------------------------------------------------------
(* cleanup(), lines 17-40, one operator per resource it releases.  Each     *)
(* takes the objects and the ref and gives the objects after the release.   *)

\* inputNodeRef.current.disconnect(), lines 18-21
disconnectNode(n, r) ==
    IF r # Null THEN [n EXCEPT ![r] = "disconnected"] ELSE n

\* audioCtxRef.current.close(), lines 22-25
closeAudioCtx(a, r) ==
    IF r # Null THEN [a EXCEPT ![r] = "closed"] ELSE a

\* WebSocket.close().  On a CONNECTING socket it fails the connection:
\* readyState is CLOSING until the error event is fired.  On an OPEN socket it
\* starts the closing handshake, which ends with a close event alone; the
\* component sets no onclose handler and compares readyState with OPEN only,
\* so that socket counts as CLOSED from here on.
wsCloseState(s) ==
    CASE s = "CONNECTING" -> "CLOSING"
      [] s = "OPEN" -> "CLOSED"
      [] OTHER -> s

\* A cleanup() that nulls wsRef without closing the socket
closeWsForgotten(w, r) == w

\* wsRef.current.close(), lines 26-29
closeWs(w, r) ==
    IF r # Null THEN [w EXCEPT ![r] = wsCloseState(w[r])] ELSE w

\* mediaStreamRef.current.getTracks().forEach(track => track.stop()), lines 30-33
stopStream(s, r) ==
    IF r # Null THEN [s EXCEPT ![r] = "stopped"] ELSE s

\* clearTimeout(reconnectTimeoutRef.current), lines 34-37: cancels the timeout
\* the ref holds if it has not fired yet
clearTimer(t, r) ==
    IF r # Null /\ t[r] = "pending" THEN [t EXCEPT ![r] = "cleared"] ELSE t

\* leaveCall(), lines 129-131: cleanup(), lines 17-40, and nothing else
leaveCall ==
    /\ node' = disconnectNode(node, inputNodeRef)
    /\ inputNodeRef' = Null
    /\ audioCtx' = closeAudioCtx(audioCtx, audioCtxRef)
    /\ audioCtxRef' = Null
    /\ ws' = closeWs(ws, wsRef)
    /\ wsRef' = Null
    /\ stream' = stopStream(stream, mediaStreamRef)
    /\ mediaStreamRef' = Null
    /\ timer' = clearTimer(timer, reconnectTimeoutRef)
    /\ reconnectTimeoutRef' = Null
    /\ isConnected' = FALSE
    /\ status' = "notConnected"
    /\ UNCHANGED <<nextId, pc, closure>>

\* joinCall(), lines 42-95, up to the await of getUserMedia.  c is the
\* isConnected of the render whose joinCall this is, t the timers and st the
\* status when it is called.
joinCall(c, t, st) ==
    IF c
    THEN \* line 43: return
         /\ timer' = t
         /\ status' = st
         /\ UNCHANGED <<isConnected, refs, reconnectTimeoutRef, nextId, objects,
                        pc, closure>>
    ELSE /\ nextId <= MaxAttempts
         /\ LET n == nextId IN
            \* line 45: cleanup()
            /\ node' = disconnectNode(node, inputNodeRef)
            /\ inputNodeRef' = Null
            /\ stream' = stopStream(stream, mediaStreamRef)
            /\ mediaStreamRef' = Null
            /\ timer' = clearTimer(t, reconnectTimeoutRef)
            /\ reconnectTimeoutRef' = Null
            /\ isConnected' = FALSE
            \* line 48
            /\ status' = "requestingMic"
            \* lines 53-54: new WebSocket, wsRef.current = ws
            /\ ws' = [closeWs(ws, wsRef) EXCEPT ![n] = "CONNECTING"]
            /\ wsRef' = n
            \* lines 92-93: new AudioContext, audioCtxRef.current = audioCtx
            /\ audioCtx' = [closeAudioCtx(audioCtx, audioCtxRef)
                               EXCEPT ![n] = "running"]
            /\ audioCtxRef' = n
            \* line 95: await getUserMedia
            /\ pc' = [pc EXCEPT ![n] = "awaitMic"]
            /\ closure' = [closure EXCEPT ![n] = c]
            /\ nextId' = n + 1

\* The Join button, lines 159-162: disabled while isConnected
ClickJoin ==
    /\ ~isConnected
    /\ joinCall(isConnected, timer, status)
    /\ UNCHANGED mediaVars

\* The Leave button, lines 175-178: disabled while not isConnected
ClickLeave ==
    /\ isConnected
    /\ leaveCall
    /\ UNCHANGED mediaVars

\* join() and leave() called by a shell that does not disable its buttons
CallJoin ==
    /\ joinCall(isConnected, timer, status)
    /\ UNCHANGED mediaVars

CallLeave ==
    /\ leaveCall
    /\ UNCHANGED mediaVars

----------------------------------------------------------------------------
(* Events of the WebSocket of invocation k                                  *)

\* ws.onopen, lines 57-59
onopen(k) ==
    /\ status' = "wsReady"
    /\ UNCHANGED <<isConnected, refs, reconnectTimeoutRef, timer>>

\* An error handler that reports the failure and schedules no retry
onerrorNoRetry(k) ==
    /\ status' = "retrying"
    /\ UNCHANGED <<isConnected, refs, reconnectTimeoutRef, timer>>

\* ws.onerror, lines 61-68: the timeout is stored over whatever the ref held
onerror(k) ==
    /\ status' = "retrying"
    /\ timer' = [timer EXCEPT ![k] = "pending"]
    /\ reconnectTimeoutRef' = k
    /\ UNCHANGED <<isConnected, refs>>

\* The connection is established
WsOpen(k) ==
    /\ ws[k] = "CONNECTING"
    /\ ws' = [ws EXCEPT ![k] = "OPEN"]
    /\ onopen(k)
    /\ UNCHANGED <<audioCtx, stream, node, nextId, pc, closure, mediaVars>>

\* The connection fails (refused, dropped, or failed by close() while
\* CONNECTING): readyState CLOSED, then the error event
WsError(k) ==
    /\ ws[k] \in {"CONNECTING", "OPEN", "CLOSING"}
    /\ ws' = [ws EXCEPT ![k] = "CLOSED"]
    /\ onerror(k)
    /\ UNCHANGED <<audioCtx, stream, node, nextId, pc, closure, mediaVars>>

\* The peer closes the connection cleanly: a close event and no error
\* event, and the component sets no onclose handler
WsClose(k) ==
    /\ ws[k] = "OPEN"
    /\ ws' = [ws EXCEPT ![k] = "CLOSED"]
    /\ UNCHANGED <<isConnected, status, refs, reconnectTimeoutRef, audioCtx,
                   stream, node, timer, nextId, pc, closure, mediaVars>>

\* The timeout callback, lines 64-67: it calls the joinCall of the render
\* that installed the handler
TimerFire(k) ==
    /\ timer[k] = "pending"
    /\ joinCall(closure[k], [timer EXCEPT ![k] = "fired"], "autoRetrying")
    /\ UNCHANGED mediaVars

----------------------------------------------------------------------------
(* Completion of getUserMedia of invocation k, lines 95-126                 *)

\* lines 105-121, after the stream is stored
startCapture(k) ==
    /\ inputNodeRef' = k
    /\ node' = [node EXCEPT ![k] = "connected"]
    /\ isConnected' = TRUE
    /\ status' = "connected"
    /\ pc' = [pc EXCEPT ![k] = "done"]

\* lines 123-126
catchMicError(k) ==
    /\ status' = "micError"
    /\ pc' = [pc EXCEPT ![k] = "caught"]
    /\ UNCHANGED <<isConnected, inputNodeRef, node>>

\* The microphone is granted.  createMediaStreamSource on an AudioContext
\* that cleanup() closed meanwhile throws InvalidStateError in some browsers
\* and creates the node in others.
MicGrant(k) ==
    /\ pc[k] = "awaitMic"
    /\ mediaStreamRef' = k
    /\ stream' = [stream EXCEPT ![k] = "live"]
    /\ \/ startCapture(k)
       \/ audioCtx[k] = "closed" /\ catchMicError(k)
    /\ UNCHANGED <<wsRef, audioCtxRef, reconnectTimeoutRef, ws, audioCtx, timer,
                   nextId, closure, mediaVars>>

\* getUserMedia rejects (permission denied, no device)
MicDeny(k) ==
    /\ pc[k] = "awaitMic"
    /\ catchMicError(k)
    /\ UNCHANGED <<mediaStreamRef, stream, wsRef, audioCtxRef,
                   reconnectTimeoutRef, ws, audioCtx, timer, nextId, closure,
                   mediaVars>>

----------------------------------------------------------------------------
(* Audio: the capture callback and the inbound frames                       *)

session == <<isConnected, status, wsRef, audioCtxRef, inputNodeRef,
             mediaStreamRef, reconnectTimeoutRef, nextId, ws, audioCtx, pc,
             stream, node, timer, closure>>

\* WebSocket.send(): InvalidStateError while CONNECTING, the data is
\* transmitted while OPEN and discarded while CLOSING or CLOSED
wsSend(s) ==
    CASE s = "CONNECTING" -> "threw"
      [] s = "OPEN" -> "sent"
      [] OTHER -> "dropped"

\* A capture callback that sends without looking at the socket
onaudioprocessUnguarded ==
    IF wsRef = Null THEN "threw" ELSE wsSend(ws[wsRef])

\* processor.onaudioprocess, lines 109-115
onaudioprocess ==
    IF wsRef = Null \/ ws[wsRef] # "OPEN"
    THEN "dropped"
    ELSE wsSend(ws[wsRef])

\* The audio subsystem delivers a block to the node of invocation k.  An
\* audioprocess event already queued is still delivered after disconnect()
\* or close().
CaptureTick(k) ==
    /\ node[k] # "none"
    /\ media' = <<onaudioprocess, 0>>
    /\ UNCHANGED <<session, decoding>>

\* A decoder that drops the bytes that do not fill a sample
float32LengthTruncating(b) == b \div 4

\* new Float32Array(arrayBuf), line 76: the number of samples, or -1 for the
\* RangeError thrown when the byte length is no multiple of 4
float32Length(b) ==
    IF b % 4 = 0 THEN b \div 4 ELSE -1

\* The then() callback of lines 75-88 with its catch(), for b bytes
playFrame(b) ==
    LET n == float32Length(b) IN
    CASE n < 0 -> <<"rangeError", 0>>
      [] n >= 0 /\ audioCtxRef = Null -> <<"typeError", 0>>
      \* createBuffer() with a length of 0: NotSupportedError
      [] n = 0 /\ audioCtxRef # Null -> <<"notSupportedError", 0>>
      [] OTHER -> <<"played", n>>

\* ws.onmessage, lines 71-75, for a binary frame of b bytes on the socket of
\* invocation k: messages are delivered to OPEN sockets only.  The callback
\* of a frame reads audioCtxRef and its own bytes and writes nothing another
\* frame reads, so the frames are followed one at a time.
Message(k, b) ==
    /\ ws[k] = "OPEN"
    /\ IF audioCtxRef = Null
       THEN \* line 72: return
            /\ media' = <<"ignored", 0>>
            /\ UNCHANGED decoding
       ELSE \* line 75: event.data.arrayBuffer()
            /\ decoding = <<>>
            /\ decoding' = <<b>>
            /\ UNCHANGED media
    /\ UNCHANGED session

\* The arrayBuffer() promise of the frame resolves, lines 75-88
DecodeDone ==
    /\ decoding # <<>>
    /\ media' = playFrame(Head(decoding))
    /\ decoding' = <<>>
    /\ UNCHANGED session

----------------------------------------------------------------------------
Env ==
    \E k \in Attempts :
        \/ WsOpen(k)
        \/ WsError(k)
        \/ WsClose(k)
        \/ TimerFire(k)
        \/ MicGrant(k)
        \/ MicDeny(k)

\* The component as rendered
Next == ClickJoin \/ ClickLeave \/ Env

Spec == Init /\ [][Next]_vars

\* The session behind a shell that calls join() and leave() in any state
ApiNext == CallJoin \/ CallLeave \/ Env

ApiSpec == Init /\ [][ApiNext]_vars

\* The component while the user never leaves; a timeout that is pending fires
RetryNext == ClickJoin \/ Env

FairSpec ==
    /\ Init
    /\ [][RetryNext]_vars
    /\ \A k \in Attempts : WF_vars(TimerFire(k))

\* The component with its audio callbacks
MediaNext ==
    \/ nextId <= MaxMediaAttempts /\ ClickJoin
    \/ ClickLeave
    \/ \E k \in Attempts :
          \/ WsOpen(k)
          \/ WsError(k)
          \/ WsClose(k)
          \/ nextId <= MaxMediaAttempts /\ TimerFire(k)
          \/ MicGrant(k)
          \/ MicDeny(k)
          \/ CaptureTick(k)
          \/ \E b \in FrameBytes : Message(k, b)
    \/ DecodeDone

MediaSpec == Init /\ [][MediaNext]_vars

\* The component with its capture callback only
CaptureNext ==
    \/ nextId <= MaxMediaAttempts /\ ClickJoin
    \/ ClickLeave
    \/ \E k \in Attempts :
          \/ WsOpen(k)
          \/ WsError(k)
          \/ WsClose(k)
          \/ nextId <= MaxMediaAttempts /\ TimerFire(k)
          \/ MicGrant(k)
          \/ MicDeny(k)
          \/ CaptureTick(k)

CaptureSpec == Init /\ [][CaptureNext]_vars

\* The component with its inbound frames only
PlaybackNext ==
    \/ nextId <= MaxMediaAttempts /\ ClickJoin
    \/ ClickLeave
    \/ \E k \in Attempts :
          \/ WsOpen(k)
          \/ WsError(k)
          \/ WsClose(k)
          \/ nextId <= MaxMediaAttempts /\ TimerFire(k)
          \/ MicGrant(k)
          \/ MicDeny(k)
          \/ \E b \in FrameBytes : Message(k, b)
    \/ DecodeDone

PlaybackSpec == Init /\ [][PlaybackNext]_vars

----------------------------------------------------------------------------
(* Properties                                                               *)

LiveWs(k) == ws[k] \in {"CONNECTING", "OPEN"}

\* Every handle ref is null and the session is reported as not connected
HandlesReleased ==
    /\ wsRef = Null /\ audioCtxRef = Null
    /\ inputNodeRef = Null /\ mediaStreamRef = Null
    /\ ~isConnected

NoTimerPending ==
    /\ reconnectTimeoutRef = Null
    /\ \A k \in Attempts : timer[k] # "pending"

\* Idle: nothing held, nothing scheduled
Idle == HandlesReleased /\ NoTimerPending

\* No object the session created is still in use
AllReleased ==
    \A k \in Attempts :
        /\ ~LiveWs(k)
        /\ audioCtx[k] # "running"
        /\ stream[k] # "live"
        /\ node[k] # "connected"

\* The session is Ready on the connection of invocation k
ReadyOn(k) == isConnected /\ wsRef = k /\ ws[k] = "OPEN"

\* C1: when leave() returns the session is Idle and every resource it owned
\* is released: every socket closed, every playback context closed, every
\* capture node disconnected, every microphone stream stopped, all refs null,
\* no retry timer pending, not connected.
C1_LeaveReleasesEverything ==
    [][leaveCall => (Idle /\ AllReleased)']_vars

\* A state from which cleanup() changes nothing
LeaveFixpoint ==
    /\ HandlesReleased
    /\ reconnectTimeoutRef = Null
    /\ status = "notConnected"

\* C2: leave() from Idle changes no part of the session state, and after
\* any leave() a second leave() would change nothing.
C2_LeaveIdempotent ==
    [][leaveCall => /\ Idle => UNCHANGED vars
                    /\ LeaveFixpoint']_vars

\* C3: once leave() has released the handles (all refs null, not connected;
\* wsRef is null only between a leave() and the next joinCall()), no step
\* other than a joinCall() invocation stores a handle or marks the session
\* connected - in particular not the microphone grant or the transport-open
\* event of an attempt that was in flight when leave() ran.
C3_AbandonedAttemptStaysIdle ==
    [][(HandlesReleased /\ nextId' = nextId) => HandlesReleased']_vars

\* C4: between leave() and the next joinCall() (wsRef is null exactly then)
\* no retry timer is pending.
C4_NoRetryAfterLeave ==
    wsRef = Null => \A k \in Attempts : timer[k] # "pending"

\* C5: at most one WebSocket that has not been closed exists, and it is the
\* one wsRef holds: a connection is created only when every earlier one has
\* been closed.
C5_OneConnection ==
    /\ Cardinality({k \in Attempts : LiveWs(k)}) <= 1
    /\ \A k \in Attempts : LiveWs(k) => wsRef = k

\* A second join replaced a connection that was still connecting
C5_Witness ==
    /\ nextId > 2
    /\ ws[1] = "CLOSING"
    /\ LiveWs(2)

\* C6: joinCall() invoked while the session is reported connected, by the
\* user or by a firing retry timer, tears nothing down, opens no connection,
\* starts no new attempt and leaves every handle unchanged (and, invoked by
\* the user, the status too).
C6_JoinWhileReadyIsNoOp ==
    [][isConnected =>
        /\ CallJoin => UNCHANGED vars
        /\ (\E k \in Attempts : TimerFire(k)) =>
               UNCHANGED <<isConnected, refs, objects, nextId, pc>>]_vars

\* C7: while the user does not leave, a connection that fails while
\* connecting schedules one retry timer; a pending retry timer eventually
\* stops being pending, and it does so only in a step that invokes
\* joinCall() and starts exactly one new attempt (its own firing, or a
\* joinCall() that cancels it); a timer fires at most once; this holds for
\* every number of earlier attempts the bound allows (no retry cap).
C7_RetryAfterFailure ==
    /\ [][\A k \in Attempts :
            (ws[k] = "CONNECTING" /\ ws'[k] = "CLOSED") =>
                (timer[k] = "none" /\ timer'[k] = "pending")]_vars
    /\ [][\A k \in Attempts :
            /\ timer[k] = "fired" => timer'[k] = "fired"
            /\ (timer[k] = "pending" /\ timer'[k] # "pending") =>
                   nextId' = nextId + 1]_vars
    /\ \A k \in Attempts :
            (timer[k] = "pending") ~>
                (timer[k] # "pending" \/ nextId > MaxAttempts)

\* Two retries in a row: the retry of invocation 1 failed and was retried
C7_Witness ==
    /\ timer[1] = "fired"
    /\ timer[2] = "fired"
    /\ nextId = 4

\* C8: a rejected microphone request is reported as a device error, and as
\* long as no later joinCall() has run no retry timer is scheduled or fires
\* for that attempt.
C8_MicErrorIsTerminal ==
    [][\A k \in Attempts :
        /\ (pc[k] = "awaitMic" /\ pc'[k] = "caught") => status' = "micError"
        /\ (pc[k] = "caught" /\ stream[k] = "none" /\ nextId = k + 1) =>
              /\ ~(timer[k] = "none" /\ timer'[k] = "pending")
              /\ ~(timer[k] = "pending" /\ timer'[k] = "fired")]_vars

\* C9: when the connection of a Ready session is closed by the peer or the
\* network, the handles are released and the session is not connected.
C9_PeerCloseTearsDown ==
    [][\A k \in Attempts :
        (ReadyOn(k) /\ (WsClose(k) \/ WsError(k))) => HandlesReleased']_vars

\* C10: a transport error on the connection of a Ready session schedules no
\* retry timer.
C10_NoRetryOnceReady ==
    [][\A k \in Attempts :
        ReadyOn(k) => ~(timer[k] = "none" /\ timer'[k] = "pending")]_vars

\* C13: every live microphone stream, every connected capture node and
\* every playback context that is not closed is the one its ref holds, so
\* there is at most one of each and the next cleanup() releases it.
C13_OneCaptureOnePlayback ==
    \A k \in Attempts :
        /\ stream[k] = "live" => mediaStreamRef = k
        /\ node[k] = "connected" => inputNodeRef = k
        /\ audioCtx[k] = "running" => audioCtxRef = k

\* C14: at most one retry timer is pending.
C14_OneRetryTimer ==
    Cardinality({k \in Attempts : timer[k] = "pending"}) <= 1

\* C15: the session is marked connected, and a capture node is connected,
\* only in a state where the connection wsRef holds is open.
C15_ReadyOnlyAfterOpen ==
    [][\/ /\ isConnected' => isConnected
          /\ \A k \in Attempts : node'[k] = "connected" => node[k] = "connected"
       \/ wsRef' # Null /\ ws'[wsRef'] = "OPEN"]_vars

\* C18: while the session is reported connected, wsRef, audioCtxRef,
\* inputNodeRef and mediaStreamRef are all non-null.
C18_ConnectedHoldsAllHandles ==
    isConnected =>
        /\ wsRef # Null /\ audioCtxRef # Null
        /\ inputNodeRef # Null /\ mediaStreamRef # Null

\* C19: when the session is not connected, no joinCall() is waiting for the
\* microphone and no retry timer is pending, every handle ref is null.
C19_QuiescentHoldsNothing ==
    (/\ ~isConnected
     /\ \A k \in Attempts : pc[k] # "awaitMic" /\ timer[k] # "pending") =>
        /\ wsRef = Null /\ audioCtxRef = Null
        /\ inputNodeRef = Null /\ mediaStreamRef = Null

\* C11: a capture callback hands its block to the transport exactly when the
\* current connection handle is non-null and OPEN; otherwise the block is
\* dropped, nothing is thrown and the session is left as it was.
C11_SendOnlyWhenOpen ==
    [][\A k \in Attempts :
          CaptureTick(k) =>
              /\ media'[1] = (IF wsRef # Null /\ ws[wsRef] = "OPEN"
                              THEN "sent" ELSE "dropped")
              /\ UNCHANGED session]_vars

\* A block was dropped while the current socket was still connecting
C11_Witness ==
    /\ media[1] = "dropped"
    /\ wsRef # Null /\ ws[wsRef] = "CONNECTING"
    /\ inputNodeRef = wsRef /\ node[wsRef] = "connected"

\* C12: a frame whose byte length is no multiple of 4 is rejected whole: its
\* decode fails with an error that is caught, nothing is played, and the
\* session and its handles are untouched.
C12_MalformedFrameRejected ==
    [][(DecodeDone /\ Head(decoding) % 4 # 0) =>
          /\ media' = <<"rangeError", 0>>
          /\ UNCHANGED session]_vars

\* A malformed frame was rejected and the session is still Ready on an open
\* socket with a running playback context
C12_Witness ==
    /\ media[1] = "rangeError"
    /\ isConnected
    /\ wsRef # Null /\ ws[wsRef] = "OPEN"
    /\ audioCtxRef # Null /\ audioCtx[audioCtxRef] = "running"

\* The callbacks of invocation k that C16 is about
staleCallback(k) ==
    \/ WsOpen(k)
    \/ WsError(k)
    \/ MicGrant(k)
    \/ CaptureTick(k)
    \/ \E b \in FrameBytes : Message(k, b)

\* C16: a callback of an invocation whose connection is no longer the current
\* one changes neither the status, the handles nor the retry timer, and sends
\* nothing through the current socket.
C16_StaleCallbacksInert ==
    [][\A k \in Attempts :
          (wsRef # k /\ staleCallback(k)) =>
              /\ UNCHANGED <<isConnected, status, refs, reconnectTimeoutRef, timer>>
              /\ media'[1] # "sent"]_vars

\* C17: a well-formed frame whose decode completes after the playback context
\* was torn down is ignored without an error.
C17_PlayAfterTeardownIsNoOp ==
    [][(DecodeDone /\ audioCtxRef = Null /\ Head(decoding) % 4 = 0) =>
          /\ media'[1] \notin Caught
          /\ media'[1] # "played"
          /\ UNCHANGED session]_vars

============================================================================
